---- MODULE Spec2Model ----
(***************************************************************************)
(* Locker-rental backend (src/backend/server.py): the three MongoDB        *)
(* collections, the request handlers create_rental, get_payment_status,    *)
(* unlock_locker and stripe_webhook, and the background task               *)
(* check_expired_rentals.  Every `await` on the database or on the payment *)
(* gateway is a suspension point, so every such call is one step and the   *)
(* steps of concurrent handlers interleave freely.                         *)
(***************************************************************************)
EXTENDS Integers, Sequences, FiniteSets, TLC

\* ------------------------------------------------------------------ bounds
NumHandlers == 2        \* request handlers that may be in flight at once
MaxRentals == 2         \* rentals ever created in one behaviour
MaxTime == 2            \* the clock runs 0..MaxTime
LongRentals == 3        \* the same two bounds for the long behaviours, in
LongTime == 4           \*   which requests are handled one at a time
LockersPerSize == 1     \* lockers of each size class (8 in the source)
FullPool == 2           \*   and in the behaviours that rent a class out
NumPins == 1            \* how many of the 900000 PIN values are drawn

\* ------------------------------------------------------- program constants
None == 0               \* Python None (Optional fields); every id is > 0
RentalDuration == 1     \* timedelta(hours=24); one clock unit is 24 hours
PinMin == 100000        \* random.randint(100000, 999999)
InvalidPin == 0         \* "000000", the PIN no rental ever gets
fake_session == 1       \* "fake_session", the one session id of the stub gateway

LockerSize == <<"small", "medium", "large">>
Sizes == {LockerSize[i] : i \in 1..Len(LockerSize)}
AVAILABLE == "available"
OCCUPIED == "occupied"
MAINTENANCE == "maintenance"
PENDING == "pending"
SUCCESS == "success"
FAILED == "failed"
EXPIRED == "expired"

LOCKER_PRICES == [s \in Sizes |-> CASE s = "small" -> 2 [] s = "medium" -> 3 [] OTHER -> 5]

Pins == PinMin..(PinMin + NumPins - 1)

\* now, lockers .. sweeper are the program's state.  `limit` is no part of
\* it: it holds the bounds of the behaviours explored (how many handlers run
\* at once, how many rentals are created, how far the clock runs, the sizes
\* asked for, whether clients poll for the payment status, how many lockers
\* each size class has) and the
\* configuration of the process (which gateway answers, whether the database
\* client is tz_aware), is set by the initial condition and never changes.
VARIABLES now, lockers, rentals, payment_transactions, uuid, handler, sweeper, limit

vars == <<now, lockers, rentals, payment_transactions, uuid, handler, sweeper, limit>>

NumLockers == Len(LockerSize) * limit.pool

\* ------------------------------------------------------------- documents
\* uuid4 ids are opaque and unique: locker ids follow the locker numbers,
\* rental ids are drawn from the counter `uuid`.
LockerUuid(i) == NumLockers + i

\* initialize_lockers: the first third small, the next medium, the rest large
SizeOfNumber(i) ==
  IF i <= limit.pool THEN "small"
  ELSE IF i <= 2 * limit.pool THEN "medium"
  ELSE "large"

Locker(i) ==
  [id |-> LockerUuid(i), number |-> i, size |-> SizeOfNumber(i),
   status |-> AVAILABLE, current_rental_id |-> None]

initialize_lockers == [i \in 1..NumLockers |-> Locker(i)]

NoLocker == [id |-> None, number |-> None, size |-> "", status |-> "", current_rental_id |-> None]

Rental(id, locker, size, pin, t) ==
  [id |-> id, locker_id |-> locker.id, locker_number |-> locker.number,
   locker_size |-> size, access_pin |-> pin, payment_session_id |-> None,
   payment_status |-> PENDING, amount |-> LOCKER_PRICES[size],
   end_time |-> t + RentalDuration, is_expired |-> FALSE]

NoRental ==
  [id |-> None, locker_id |-> None, locker_number |-> None, locker_size |-> "",
   access_pin |-> None, payment_session_id |-> None, payment_status |-> "",
   amount |-> 0, end_time |-> 0, is_expired |-> FALSE]

\* What a handler keeps of a rental document it has read: the fields it goes
\* on to use (none of them is ever written after the insert).
Read(d) ==
  [id |-> d.id, locker_id |-> d.locker_id, locker_number |-> d.locker_number,
   access_pin |-> d.access_pin, end_time |-> d.end_time]

PaymentTransaction(session, rental, t) ==
  [session_id |-> session, rental_id |-> rental.id, amount |-> rental.amount,
   payment_status |-> PENDING, updated_at |-> t]

\* ------------------------------------------------ the storage operations
\* A collection is the sequence of its documents in insertion order.  A
\* filter {"field": value, ..} and a {"$set": {"field": value, ..}} are
\* records; find_one and update_one act on the first document the filter
\* matches (FindOne: its index, 0 if there is none).
Match(d, filter) == \A k \in DOMAIN filter : d[k] = filter[k]

Matching(coll, filter) == {i \in 1..Len(coll) : Match(coll[i], filter)}

Least(S) == CHOOSE i \in S : \A j \in S : i <= j

FindOne(coll, filter) ==
  IF Matching(coll, filter) = {} THEN 0 ELSE Least(Matching(coll, filter))

UpdateOne(coll, filter, set) ==
  IF FindOne(coll, filter) = 0 THEN coll
  ELSE [coll EXCEPT ![FindOne(coll, filter)] = set @@ coll[FindOne(coll, filter)]]

\* ---------------------------------------------------- the payment gateway
\* StripeCheckout is either the stub of the repository, which answers every
\* call with the same constants (session "fake_session", status paid, event
\* checkout.session.completed) and never raises, or the payment service
\* itself: a session it creates has an id no other session has (here: the id
\* of the rental in the request's metadata), its status is paid or not, a
\* webhook event has one of the event types and names a session, and each
\* call may raise.
create_checkout_session(rental) == IF limit.stub THEN fake_session ELSE rental.id

get_checkout_status == IF limit.stub THEN {TRUE} ELSE BOOLEAN

EventTypes ==
  IF limit.stub THEN {"checkout.session.completed"}
  ELSE {"checkout.session.completed", "checkout.session.expired"}

SessionIds == IF limit.stub THEN {fake_session} ELSE 1..limit.rentals

Raises == ~limit.stub

\* ------------------------------------------------------------- handlers
\* handler[h] holds the locals of the request handler running in slot h.  A
\* handler that has answered holds its response (and nothing else) in "done"
\* until the coroutine ends (Return).
Handlers == 1..NumHandlers

Fresh ==
  [pc |-> "idle", locker |-> NoLocker, rental |-> NoRental, session |-> None,
   paid |-> FALSE, number |-> None, pin |-> None, response |-> ""]

Done(response) == [Fresh EXCEPT !.pc = "done", !.response = response]

\* a request arrives at the free slot h; its handler runs up to its first
\* suspension, with locals x
Begin(h, x) ==
  /\ h <= limit.handlers
  /\ handler[h].pc = "idle"
  /\ handler' = [handler EXCEPT ![h] = x]

\* the handler in slot h runs on to its next suspension, with locals x
Resume(h, x) == handler' = [handler EXCEPT ![h] = x]

\* check_expired_rentals starts with its first tick due
IdleSweeper == [pc |-> "sleep", expired_rentals |-> <<>>, i |-> 1]

Start ==
  /\ now = 0
  /\ lockers = initialize_lockers
  /\ rentals = <<>>
  /\ payment_transactions = <<>>
  /\ uuid = 1
  /\ handler = [h \in Handlers |-> Fresh]
  /\ sweeper = IdleSweeper

\* The behaviours explored, beside the sweeper and the clock: long ones, with
\* requests handled one at a time and payments confirmed by webhook only;
\* shorter ones with polling too; shorter ones over two sizes; handlers
\* racing each other within one instant of the clock, over two sizes; handlers
\* racing each other, the sweeper and the clock over a single rental; a size
\* class of several lockers rented out, one request at a time, within one
\* instant of the clock.
Workload(stub, tz_aware) ==
  { [handlers |-> 1, rentals |-> LongRentals, time |-> LongTime,
     sizes |-> {"small"}, poll |-> FALSE, stub |-> stub, tz_aware |-> tz_aware,
     pool |-> LockersPerSize],
    [handlers |-> 1, rentals |-> MaxRentals, time |-> MaxTime,
     sizes |-> {"small"}, poll |-> TRUE, stub |-> stub, tz_aware |-> tz_aware,
     pool |-> LockersPerSize],
    [handlers |-> 1, rentals |-> MaxRentals, time |-> MaxTime,
     sizes |-> {"small", "medium"}, poll |-> FALSE, stub |-> stub, tz_aware |-> tz_aware,
     pool |-> LockersPerSize],
    [handlers |-> NumHandlers, rentals |-> MaxRentals, time |-> 0,
     sizes |-> {"small", "medium"}, poll |-> TRUE, stub |-> stub, tz_aware |-> tz_aware,
     pool |-> LockersPerSize],
    [handlers |-> NumHandlers, rentals |-> 1, time |-> MaxTime,
     sizes |-> {"small"}, poll |-> TRUE, stub |-> stub, tz_aware |-> tz_aware,
     pool |-> LockersPerSize],
    [handlers |-> 1, rentals |-> FullPool, time |-> 0,
     sizes |-> {"small"}, poll |-> FALSE, stub |-> stub, tz_aware |-> tz_aware,
     pool |-> FullPool] }

Workloads == UNION {Workload(stub, tz_aware) : stub \in BOOLEAN, tz_aware \in BOOLEAN}

Init ==
  /\ limit \in Workloads
  /\ Start

\* --------------------------------------------------- get_locker_availability
\* count_documents of a collection; the endpoint answers, for each size, how
\* many lockers of the size are AVAILABLE (it reads, and writes nothing)
count_documents(coll, filter) == Cardinality(Matching(coll, filter))

get_locker_availability ==
  [size \in Sizes |-> count_documents(lockers, [size |-> size, status |-> AVAILABLE])]

\* ---------------------------------------------------------- create_rental
\* CreateFind with find_one by size alone
CreateFindAnyStatus(h, size) ==
  LET i == FindOne(lockers, [size |-> size]) IN
  /\ IF i = 0
     THEN /\ Begin(h, Done("400"))
          /\ uuid' = uuid
     ELSE /\ uuid <= limit.rentals
          /\ \E pin \in Pins :
               Begin(h, [Fresh EXCEPT !.pc = "c_reserve", !.locker = lockers[i],
                                   !.rental = Rental(uuid, lockers[i], size, pin, now)])
          /\ uuid' = uuid + 1
  /\ UNCHANGED <<now, lockers, rentals, payment_transactions, sweeper, limit>>

\* steps 1-2: find_one an AVAILABLE locker of the size, or HTTP 400; then
\* build the Rental (fresh id, random PIN, end_time = now + 24 h)
CreateFind(h, size) ==
  LET i == FindOne(lockers, [size |-> size, status |-> AVAILABLE]) IN
  /\ IF i = 0
     THEN /\ Begin(h, Done("400"))
          /\ uuid' = uuid
     ELSE /\ uuid <= limit.rentals
          /\ \E pin \in Pins :
               Begin(h, [Fresh EXCEPT !.pc = "c_reserve", !.locker = lockers[i],
                                   !.rental = Rental(uuid, lockers[i], size, pin, now)])
          /\ uuid' = uuid + 1
  /\ UNCHANGED <<now, lockers, rentals, payment_transactions, sweeper, limit>>

\* step 3: update_one the locker found, by id, to OCCUPIED
CreateReserve(h) ==
  /\ handler[h].pc = "c_reserve"
  /\ lockers' = UpdateOne(lockers,
                          [id |-> handler[h].locker.id],
                          [status |-> OCCUPIED, current_rental_id |-> handler[h].rental.id])
  /\ Resume(h, [handler[h] EXCEPT !.pc = "c_insert"])
  /\ UNCHANGED <<now, rentals, payment_transactions, uuid, sweeper, limit>>

\* step 4: insert_one the rental, or the insert raises and the request ends
\* with the exception (nothing is rolled back)
CreateInsert(h) ==
  /\ handler[h].pc = "c_insert"
  /\ \/ /\ rentals' = Append(rentals, handler[h].rental)
        /\ Resume(h, [handler[h] EXCEPT !.pc = "c_checkout"])
     \/ /\ rentals' = rentals
        /\ Resume(h, Done("500"))
  /\ UNCHANGED <<now, lockers, payment_transactions, uuid, sweeper, limit>>

\* step 5: the gateway creates the checkout session, or the call raises and
\* the request ends with the exception (nothing is rolled back)
CreateCheckout(h) ==
  /\ handler[h].pc = "c_checkout"
  /\ \/ Resume(h, [handler[h] EXCEPT !.pc = "c_session",
                            !.session = create_checkout_session(handler[h].rental)])
     \/ Raises /\ Resume(h, Done("500"))
  /\ UNCHANGED <<now, lockers, rentals, payment_transactions, uuid, sweeper, limit>>

\* step 6: update_one the rental, by id, with the session id
CreateSetSession(h) ==
  /\ handler[h].pc = "c_session"
  /\ rentals' = UpdateOne(rentals,
                          [id |-> handler[h].rental.id],
                          [payment_session_id |-> handler[h].session])
  /\ Resume(h, [handler[h] EXCEPT !.pc = "c_tx"])
  /\ UNCHANGED <<now, lockers, payment_transactions, uuid, sweeper, limit>>

\* step 7: insert_one the PENDING transaction and answer
CreateInsertTx(h) ==
  /\ handler[h].pc = "c_tx"
  /\ payment_transactions' =
       Append(payment_transactions, PaymentTransaction(handler[h].session, handler[h].rental, now))
  /\ Resume(h, Done("created"))
  /\ UNCHANGED <<now, lockers, rentals, uuid, sweeper, limit>>

\* ----------------------------------------------------- get_payment_status
\* get_checkout_status answers paid or not, or raises (HTTP 400)
PollStatus(h, session_id) ==
  /\ limit.poll
  /\ \/ \E paid \in get_checkout_status :
          Begin(h, [Fresh EXCEPT !.pc = "p_find", !.session = session_id, !.paid = paid])
     \/ Raises /\ Begin(h, Done("400"))
  /\ UNCHANGED <<now, lockers, rentals, payment_transactions, uuid, sweeper, limit>>

\* PollFind without the test of what find_one returned
PollFindUnchecked(h) ==
  /\ handler[h].pc = "p_find"
  /\ LET i == FindOne(rentals, [payment_session_id |-> handler[h].session]) IN
     Resume(h, [handler[h] EXCEPT !.pc = "p_tx",
                                  !.rental = IF i = 0 THEN Read(NoRental) ELSE Read(rentals[i])])
  /\ UNCHANGED <<now, lockers, rentals, payment_transactions, uuid, sweeper, limit>>

\* find_one the rental of the session; the 404 raised when there is none is
\* caught by the handler's own except clause and becomes HTTP 400 (session_id
\* stays in the handler's frame)
PollFind(h) ==
  /\ handler[h].pc = "p_find"
  /\ LET i == FindOne(rentals, [payment_session_id |-> handler[h].session]) IN
     IF i = 0
     THEN Resume(h, [Done("400") EXCEPT !.session = handler[h].session])
     ELSE Resume(h, [handler[h] EXCEPT !.pc = "p_tx", !.rental = Read(rentals[i])])
  /\ UNCHANGED <<now, lockers, rentals, payment_transactions, uuid, sweeper, limit>>

\* update_one the transaction of the session: SUCCESS if paid, else PENDING
PollUpdateTx(h) ==
  /\ handler[h].pc = "p_tx"
  /\ payment_transactions' =
       UpdateOne(payment_transactions,
                 [session_id |-> handler[h].session],
                 [payment_status |-> IF handler[h].paid THEN SUCCESS ELSE PENDING,
                  updated_at |-> now])
  /\ IF handler[h].paid
     THEN Resume(h, [handler[h] EXCEPT !.pc = "p_rental"])
     ELSE Resume(h, Done("unpaid"))
  /\ UNCHANGED <<now, lockers, rentals, uuid, sweeper, limit>>

\* PollUpdateRental with the document rebuilt from the model's defaults
\* (replace instead of $set)
PollReplaceRental(h) ==
  /\ handler[h].pc = "p_rental"
  /\ rentals' = UpdateOne(rentals,
                          [id |-> handler[h].rental.id],
                          [payment_status |-> SUCCESS, is_expired |-> FALSE])
  /\ Resume(h, Done("paid"))
  /\ UNCHANGED <<now, lockers, payment_transactions, uuid, sweeper, limit>>

\* PollUpdateRental with a test of end_time before the write
PollUpdateRentalInTime(h) ==
  /\ handler[h].pc = "p_rental"
  /\ rentals' = IF now <= handler[h].rental.end_time
                THEN UpdateOne(rentals,
                               [id |-> handler[h].rental.id],
                               [payment_status |-> SUCCESS])
                ELSE rentals
  /\ Resume(h, Done("paid"))
  /\ UNCHANGED <<now, lockers, payment_transactions, uuid, sweeper, limit>>

\* paid: update_one the rental found, by id, to SUCCESS
PollUpdateRental(h) ==
  /\ handler[h].pc = "p_rental"
  /\ rentals' = UpdateOne(rentals,
                          [id |-> handler[h].rental.id],
                          [payment_status |-> SUCCESS])
  /\ Resume(h, Done("paid"))
  /\ UNCHANGED <<now, lockers, payment_transactions, uuid, sweeper, limit>>

\* --------------------------------------------------------- stripe_webhook
\* WebhookParse without the test of the event's type
WebhookParseAnyEvent(h, event_type, session_id) ==
  /\ \/ Begin(h, [Fresh EXCEPT !.pc = "w_tx", !.session = session_id])
     \/ Raises /\ Begin(h, Done("error"))
  /\ UNCHANGED <<now, lockers, rentals, payment_transactions, uuid, sweeper, limit>>

\* handle_webhook parses the event, or raises ({"status": "error"})
WebhookParse(h, event_type, session_id) ==
  /\ \/ IF event_type = "checkout.session.completed"
        THEN Begin(h, [Fresh EXCEPT !.pc = "w_tx", !.session = session_id])
        ELSE Begin(h, Done("success"))
     \/ Raises /\ Begin(h, Done("error"))
  /\ UNCHANGED <<now, lockers, rentals, payment_transactions, uuid, sweeper, limit>>

WebhookUpdateTx(h) ==
  /\ handler[h].pc = "w_tx"
  /\ payment_transactions' =
       UpdateOne(payment_transactions,
                 [session_id |-> handler[h].session],
                 [payment_status |-> SUCCESS, updated_at |-> now])
  /\ Resume(h, [handler[h] EXCEPT !.pc = "w_rental"])
  /\ UNCHANGED <<now, lockers, rentals, uuid, sweeper, limit>>

WebhookUpdateRental(h) ==
  /\ handler[h].pc = "w_rental"
  /\ rentals' = UpdateOne(rentals,
                          [payment_session_id |-> handler[h].session],
                          [payment_status |-> SUCCESS])
  /\ Resume(h, Done("success"))
  /\ UNCHANGED <<now, lockers, payment_transactions, uuid, sweeper, limit>>

\* ---------------------------------------------------------- unlock_locker
\* find_one without the payment_status condition
UnexpiredRental(number, pin) ==
  FindOne(rentals, [locker_number |-> number, access_pin |-> pin,
                    is_expired |-> FALSE])

\* find_one without the is_expired condition
PaidRental(number, pin) ==
  FindOne(rentals, [locker_number |-> number, access_pin |-> pin,
                    payment_status |-> SUCCESS])

\* find_one a paid, unexpired rental with the number and PIN
ActiveRental(number, pin) ==
  FindOne(rentals, [locker_number |-> number, access_pin |-> pin,
                    payment_status |-> SUCCESS, is_expired |-> FALSE])

\* none: the invalid-PIN answer (the request's number and PIN stay in the
\* handler's frame, the answer carries neither).  Found: current_time, which carries its
\* timezone, is compared with the end_time read back from the database, which
\* carries one only if the client (AsyncIOMotorClient(mongo_url), MONGO_URL
\* from the environment) is tz_aware; if it is not, the comparison raises
\* TypeError and the request ends with HTTP 500.  now > end_time: lazy expiry
\* begins; else the locker is unlocked
UnlockFind(h, number, pin) ==
  LET i == ActiveRental(number, pin) IN
  /\ IF i = 0
     THEN Begin(h, [Done("invalid") EXCEPT !.number = number, !.pin = pin])
     ELSE IF ~limit.tz_aware
     THEN Begin(h, Done("500"))
     ELSE IF now > rentals[i].end_time
     THEN Begin(h, [Fresh EXCEPT !.pc = "u_expire", !.number = number, !.pin = pin,
                              !.rental = Read(rentals[i])])
     ELSE Begin(h, Done("unlocked"))
  /\ UNCHANGED <<now, lockers, rentals, payment_transactions, uuid, sweeper, limit>>

\* lazy expiry, first write: the rental, by id, is_expired = True
UnlockExpire(h) ==
  /\ handler[h].pc = "u_expire"
  /\ rentals' = UpdateOne(rentals,
                          [id |-> handler[h].rental.id],
                          [is_expired |-> TRUE])
  /\ Resume(h, [handler[h] EXCEPT !.pc = "u_release"])
  /\ UNCHANGED <<now, lockers, payment_transactions, uuid, sweeper, limit>>

\* lazy expiry, second write: the locker, by number, AVAILABLE
UnlockRelease(h) ==
  /\ handler[h].pc = "u_release"
  /\ lockers' = UpdateOne(lockers,
                          [number |-> handler[h].number],
                          [status |-> AVAILABLE, current_rental_id |-> None])
  /\ Resume(h, Done("expired"))
  /\ UNCHANGED <<now, rentals, payment_transactions, uuid, sweeper, limit>>

\* -------------------------------------------------- check_expired_rentals
\* Overdue without the payment_status condition
OverdueUnpaid(d) == d.end_time < now /\ d.is_expired = FALSE

\* a tick begins (the sleep is over): find the paid, unexpired rentals whose
\* end_time is before now
Overdue(d) == d.end_time < now /\ d.is_expired = FALSE /\ d.payment_status = SUCCESS

ExpiredCandidates == SelectSeq(rentals, Overdue)

SweepFind ==
  /\ sweeper.pc = "sleep"
  /\ sweeper' = [pc |-> IF ExpiredCandidates = <<>> THEN "sleep" ELSE "mark",
                 expired_rentals |-> [k \in 1..Len(ExpiredCandidates) |-> Read(ExpiredCandidates[k])],
                 i |-> 1]
  /\ UNCHANGED <<now, lockers, rentals, payment_transactions, uuid, handler, limit>>

\* SweepMark with the expiry recorded in payment_status instead of is_expired
SweepMarkStatus ==
  /\ sweeper.pc = "mark"
  /\ rentals' = UpdateOne(rentals,
                          [id |-> sweeper.expired_rentals[sweeper.i].id],
                          [payment_status |-> EXPIRED])
  /\ sweeper' = [sweeper EXCEPT !.pc = "release"]
  /\ UNCHANGED <<now, lockers, payment_transactions, uuid, handler, limit>>

\* for the candidate at hand: the rental, by id, is_expired = True
SweepMark ==
  /\ sweeper.pc = "mark"
  /\ rentals' = UpdateOne(rentals,
                          [id |-> sweeper.expired_rentals[sweeper.i].id],
                          [is_expired |-> TRUE])
  /\ sweeper' = [sweeper EXCEPT !.pc = "release"]
  /\ UNCHANGED <<now, lockers, payment_transactions, uuid, handler, limit>>

\* then its locker, by id, AVAILABLE; on to the next candidate, or the loop
\* is exhausted (i past the end of the list) and the task sleeps
SweepRelease ==
  /\ sweeper.pc = "release"
  /\ lockers' = UpdateOne(lockers,
                          [id |-> sweeper.expired_rentals[sweeper.i].locker_id],
                          [status |-> AVAILABLE, current_rental_id |-> None])
  /\ sweeper' = [sweeper EXCEPT !.i = sweeper.i + 1,
                               !.pc = IF sweeper.i < Len(sweeper.expired_rentals)
                                      THEN "mark" ELSE "sleep"]
  /\ UNCHANGED <<now, rentals, payment_transactions, uuid, handler, limit>>

\* SweepFails without the except clause: the exception ends the task
SweepFailsKills ==
  /\ sweeper.pc \in {"mark", "release"}
  /\ sweeper' = [sweeper EXCEPT !.pc = "dead"]
  /\ UNCHANGED <<now, lockers, rentals, payment_transactions, uuid, handler, limit>>

\* a write of the tick raises: the except clause of the loop reports it, the
\* rest of the tick is skipped and the task sleeps until the next tick
SweepFails ==
  /\ sweeper.pc \in {"mark", "release"}
  /\ sweeper' = [sweeper EXCEPT !.pc = "sleep"]
  /\ UNCHANGED <<now, lockers, rentals, payment_transactions, uuid, handler, limit>>

\* ------------------------------------------------------------ environment
\* the handler's request has been answered: the coroutine ends
Return(h) ==
  /\ handler[h].pc = "done"
  /\ handler' = [handler EXCEPT ![h] = Fresh]
  /\ UNCHANGED <<now, lockers, rentals, payment_transactions, uuid, sweeper, limit>>

\* the wall clock (datetime.now) advances
Tick ==
  /\ now < limit.time
  /\ now' = now + 1
  /\ UNCHANGED <<lockers, rentals, payment_transactions, uuid, handler, sweeper, limit>>

create_rental ==
  \/ \E h \in Handlers, size \in limit.sizes : CreateFind(h, size)
  \/ \E h \in Handlers : CreateReserve(h)
  \/ \E h \in Handlers : CreateInsert(h)
  \/ \E h \in Handlers : CreateCheckout(h)
  \/ \E h \in Handlers : CreateSetSession(h)
  \/ \E h \in Handlers : CreateInsertTx(h)

get_payment_status ==
  \/ \E h \in Handlers, session_id \in SessionIds : PollStatus(h, session_id)
  \/ \E h \in Handlers : PollFind(h)
  \/ \E h \in Handlers : PollUpdateTx(h)
  \/ \E h \in Handlers : PollUpdateRental(h)

stripe_webhook ==
  \/ \E h \in Handlers, e \in EventTypes, session_id \in SessionIds : WebhookParse(h, e, session_id)
  \/ \E h \in Handlers : WebhookUpdateTx(h)
  \/ \E h \in Handlers : WebhookUpdateRental(h)

unlock_locker ==
  \/ \E h \in Handlers, number \in 1..NumLockers, pin \in Pins \cup {InvalidPin} :
       UnlockFind(h, number, pin)
  \/ \E h \in Handlers : UnlockExpire(h)
  \/ \E h \in Handlers : UnlockRelease(h)

check_expired_rentals ==
  \/ SweepFind
  \/ SweepMark
  \/ SweepRelease
  \/ SweepFails

Next ==
  \/ create_rental
  \/ get_payment_status
  \/ stripe_webhook
  \/ unlock_locker
  \/ \E h \in Handlers : Return(h)
  \/ check_expired_rentals
  \/ Tick

Spec == Init /\ [][Next]_vars

\* ---------------------------------------------------------------- fairness
\* One server process with the real gateway and a tz_aware client, requests
\* one at a time.
LiveInit ==
  /\ limit = [handlers |-> 1, rentals |-> MaxRentals, time |-> MaxTime,
              sizes |-> {"small"}, poll |-> TRUE, stub |-> FALSE, tz_aware |-> TRUE,
              pool |-> LockersPerSize]
  /\ Start

\* a request that has begun goes on: each await of a handler completes
Proceeds(h) ==
  \/ CreateReserve(h) \/ CreateInsert(h) \/ CreateCheckout(h)
  \/ CreateSetSession(h) \/ CreateInsertTx(h)
  \/ PollFind(h) \/ PollUpdateTx(h) \/ PollUpdateRental(h)
  \/ WebhookUpdateTx(h) \/ WebhookUpdateRental(h)
  \/ UnlockExpire(h) \/ UnlockRelease(h)
  \/ Return(h)

\* The event loop runs every coroutine that is ready: the task created at
\* startup is resumed when its sleep or its await is over, and so is every
\* handler.  The database does not fail for ever: a write the Sweeper attempts
\* again and again succeeds at some attempt.
Fairness ==
  /\ WF_vars(check_expired_rentals)
  /\ SF_vars(SweepMark)
  /\ SF_vars(SweepRelease)
  /\ \A h \in Handlers : WF_vars(Proceeds(h))

LiveSpec == LiveInit /\ [][Next]_vars /\ Fairness

\* ================================================================ claims
\* helpers of the statements below
RentalIndexes == DOMAIN rentals
LockerIndexes == DOMAIN lockers
HoldsLocker(h) == handler[h].pc \in {"c_insert", "c_checkout", "c_session", "c_tx"}
Steps(h) == handler'[h] # handler[h]
LockerOf(r) == lockers[FindOne(lockers, [id |-> r.locker_id])]
Paid(r) == r.payment_status = SUCCESS

\* C1: two create_rental requests in flight at once are never handed the same
\* locker: no two handlers that have each marked a locker OCCUPIED for their
\* rental hold the same locker.
C1_NoSharedLocker ==
  \A h1 \in Handlers, h2 \in Handlers :
    (h1 # h2 /\ HoldsLocker(h1) /\ HoldsLocker(h2))
      => handler[h1].locker.id # handler[h2].locker.id

\* C2: in every reachable state each locker has at most one rental that is
\* paid (SUCCESS) and not expired.
C2_OneActiveRentalPerLocker ==
  \A l \in LockerIndexes :
    Cardinality({i \in RentalIndexes : /\ rentals[i].locker_id = lockers[l].id
                                       /\ rentals[i].is_expired = FALSE
                                       /\ Paid(rentals[i])}) <= 1

\* C3: in every reachable state a locker is OCCUPIED if and only if its
\* current_rental_id names exactly one rental of the ledger that is on this
\* locker and not terminal (not expired, not FAILED or EXPIRED); an AVAILABLE
\* locker has no current_rental_id.
C3_OccupiedIffCurrentRental ==
  \A l \in LockerIndexes :
    LET named == {i \in RentalIndexes :
                    /\ rentals[i].id = lockers[l].current_rental_id
                    /\ rentals[i].locker_id = lockers[l].id
                    /\ rentals[i].is_expired = FALSE
                    /\ rentals[i].payment_status \notin {FAILED, EXPIRED}} IN
    /\ (lockers[l].status = OCCUPIED) <=> (Cardinality(named) = 1)
    /\ (lockers[l].status = AVAILABLE) => (lockers[l].current_rental_id = None)

\* C4: expire-and-release applied again to a rental changes no record: no step
\* flips back to AVAILABLE a locker that is reserved for another rental than
\* the expired one (a locker is released only for the rental it names, once
\* that rental is marked expired).
C4_ReleaseOnlyTheExpiredRental ==
  [][\A l \in LockerIndexes :
       (lockers[l].status = OCCUPIED /\ lockers'[l].status = AVAILABLE)
         => \E i \in RentalIndexes : /\ rentals[i].id = lockers[l].current_rental_id
                                     /\ rentals[i].is_expired]_vars

\* the Sweeper's last tick handled r and ran to its end (no write raised), and
\* no unlock is part-way through expiring r: every expire-and-release begun on
\* r has finished
SweptLast(r) == \E k \in 1..Len(sweeper.expired_rentals) : sweeper.expired_rentals[k].id = r.id
TickCompleted == sweeper.pc = "sleep" /\ sweeper.i > Len(sweeper.expired_rentals)
Expiring(h, r) == handler[h].pc \in {"u_expire", "u_release"} /\ handler[h].rental.id = r.id
RaceOver(r) == TickCompleted /\ SweptLast(r) /\ \A h \in Handlers : ~Expiring(h, r)

\* C5: when the Sweeper and a lazy-expiring unlock have both worked on the same
\* overdue paid rental, whatever the interleaving, once they are done the rental
\* has is_expired = TRUE and its locker is AVAILABLE with no current_rental_id
\* (or has since been reserved for another rental).
C5_RaceConverges ==
  \A i \in RentalIndexes :
    RaceOver(rentals[i]) =>
      /\ rentals[i].is_expired
      /\ \/ /\ LockerOf(rentals[i]).status = AVAILABLE
            /\ LockerOf(rentals[i]).current_rental_id = None
         \/ LockerOf(rentals[i]).current_rental_id \notin {None, rentals[i].id}

\* the only rental of the ledger was found unexpired by the Sweeper's last tick
\* and by an unlock that has just answered "expired": both ran on it, both done
C5_Witness ==
  /\ Len(rentals) = 1
  /\ RaceOver(rentals[1])
  /\ \E h \in Handlers : handler[h] = Done("expired")
  /\ LockerOf(rentals[1]).status = AVAILABLE

\* a payment confirmation (a paid poll or a completed webhook) of session s has
\* already been applied: the rental and every transaction of s are SUCCESS
Confirmed(s) ==
  /\ \E i \in RentalIndexes : rentals[i].payment_session_id = s /\ Paid(rentals[i])
  /\ \E t \in DOMAIN payment_transactions : payment_transactions[t].session_id = s
  /\ \A t \in DOMAIN payment_transactions :
       payment_transactions[t].session_id = s => payment_transactions[t].payment_status = SUCCESS
Confirming(h) ==
  \/ handler[h].pc \in {"p_tx", "p_rental"} /\ handler[h].paid
  \/ handler[h].pc \in {"w_tx", "w_rental"}

\* C6: confirming a payment is idempotent: a step of a confirmation (paid poll
\* or completed webhook) for a session that is already confirmed changes neither
\* the transaction ledger nor the rental ledger.
C6_ConfirmIdempotent ==
  [][\A h \in Handlers :
       (Confirming(h) /\ Steps(h) /\ Confirmed(handler[h].session))
         => (payment_transactions' = payment_transactions /\ rentals' = rentals)]_vars

\* C7: is_expired is monotonic: no step takes a rental out of the ledger or
\* turns its is_expired from TRUE back to FALSE.
C7_ExpiredMonotonic ==
  [][\A i \in RentalIndexes :
       rentals[i].is_expired
         => (i \in DOMAIN rentals' /\ rentals'[i].id = rentals[i].id /\ rentals'[i].is_expired)]_vars

\* a poll is about to write the payment status of a rental that is expired
C7_Witness ==
  \E i \in RentalIndexes, h \in Handlers :
    /\ rentals[i].is_expired
    /\ handler[h].pc = "p_rental"
    /\ handler[h].rental.id = rentals[i].id

\* C8: in every reachable state, a rental with is_expired = TRUE has its locker
\* AVAILABLE and not naming that rental as current_rental_id.
C8_ExpiredMeansReleased ==
  \A i \in RentalIndexes :
    rentals[i].is_expired
      => /\ LockerOf(rentals[i]).status = AVAILABLE
         /\ LockerOf(rentals[i]).current_rental_id # rentals[i].id

\* the credentials an unlock request may carry
Numbers == 1..NumLockers
Credentials == Pins \cup {InvalidPin}
Matches(r, number, pin) == r.locker_number = number /\ r.access_pin = pin
Active(r) == Paid(r) /\ r.is_expired = FALSE

\* C9: an unlock returns success exactly when some rental has the locker number
\* and PIN, is paid, is not expired and now <= end_time; lazy expiry begins only
\* when now > end_time; the Sweeper selects no rental whose end_time equals now.
C9_UnlockExactlyWhenActive ==
  [][/\ \A h \in Handlers, number \in Numbers, pin \in Credentials :
          UnlockFind(h, number, pin) =>
            /\ (handler'[h].response = "unlocked")
                 <=> (\E i \in RentalIndexes : /\ Matches(rentals[i], number, pin)
                                               /\ Active(rentals[i])
                                               /\ now <= rentals[i].end_time)
            /\ (handler'[h].pc = "u_expire") => (now > handler'[h].rental.end_time)
     /\ SweepFind => \A k \in 1..Len(sweeper'.expired_rentals) :
                       sweeper'.expired_rentals[k].end_time # now]_vars

\* C10: for every rental created and paid, an unlock with its locker number and
\* PIN before end_time answers success, and after end_time takes the "expired"
\* path, which answers "expired" and leaves the locker AVAILABLE.
C10_UnlockBeforeAndAfterEndTime ==
  [][/\ \A h \in Handlers, number \in Numbers, pin \in Pins :
          UnlockFind(h, number, pin) =>
            \A i \in RentalIndexes :
              (Matches(rentals[i], number, pin) /\ Paid(rentals[i])) =>
                /\ (now < rentals[i].end_time) => (handler'[h].response = "unlocked")
                /\ (now > rentals[i].end_time) => (handler'[h].pc = "u_expire")
     /\ \A h \in Handlers :
          UnlockRelease(h) =>
            /\ handler'[h].response = "expired"
            /\ \A l \in LockerIndexes :
                 lockers'[l].number = handler[h].number => lockers'[l].status = AVAILABLE]_vars

\* C11: no Sweeper tick marks a rental that is not paid: the candidates of a
\* tick are all SUCCESS, and a Sweeper step leaves is_expired of every PENDING
\* rental as it was, however far the clock is past its end_time.
C11_UnpaidNeverSwept ==
  [][/\ SweepFind =>
          \A k \in 1..Len(sweeper'.expired_rentals), i \in RentalIndexes :
            rentals[i].id = sweeper'.expired_rentals[k].id => Paid(rentals[i])
     /\ (sweeper' # sweeper) =>
          \A i \in RentalIndexes :
            rentals[i].payment_status = PENDING
              => rentals'[i].is_expired = rentals[i].is_expired]_vars

\* a completed tick has expired a later rental and passed by an earlier one
\* that was as much overdue, but is unpaid
C11_Witness ==
  /\ TickCompleted
  /\ \E i \in RentalIndexes, j \in RentalIndexes :
       /\ i < j
       /\ rentals[i].payment_status = PENDING /\ rentals[i].is_expired = FALSE
       /\ rentals[i].end_time <= rentals[j].end_time
       /\ SweptLast(rentals[j]) /\ rentals[j].is_expired

\* the answer to an unlock that found nothing: success false, the one message,
\* no locker_number
InvalidAnswer(h) == handler'[h].pc = "done" /\ handler'[h].response = "invalid"
Records == <<lockers, rentals, payment_transactions>>
\* handler h takes the first step of a request
Begins(h) == handler[h].pc = "idle" /\ handler'[h].pc # "idle"

\* C12 as stated: an unlock whose number and PIN match no rental, and an unlock
\* whose number and PIN are those of a rental that is unpaid or marked expired,
\* get the same invalid answer and change no record.
C12_InactivePinAnswersInvalid ==
  [][\A h \in Handlers : Begins(h) => \A number \in Numbers, pin \in Credentials :
       (/\ UnlockFind(h, number, pin)
        /\ \/ \A i \in RentalIndexes : ~Matches(rentals[i], number, pin)
           \/ \E i \in RentalIndexes : Matches(rentals[i], number, pin) /\ ~Active(rentals[i]))
         => (InvalidAnswer(h) /\ UNCHANGED Records)]_vars

\* C12: an unlock whose number and PIN match no paid, unexpired rental gets
\* the invalid answer and changes no record, whether the PIN is wrong or is
\* that of a rental that is unpaid or marked expired.
C12_NoActiveMatchAnswersInvalid ==
  [][\A h \in Handlers : Begins(h) => \A number \in Numbers, pin \in Credentials :
       (/\ UnlockFind(h, number, pin)
        /\ \A i \in RentalIndexes : ~(Matches(rentals[i], number, pin) /\ Active(rentals[i])))
         => (InvalidAnswer(h) /\ UNCHANGED Records)]_vars

\* an unlock with the number and PIN of a rental that is marked expired has
\* got the invalid answer, no rental of the ledger being active
C12_Witness ==
  \E h \in Handlers, i \in RentalIndexes :
    /\ handler[h].pc = "done" /\ handler[h].response = "invalid"
    /\ Matches(rentals[i], handler[h].number, handler[h].pin)
    /\ rentals[i].is_expired
    /\ \A j \in RentalIndexes : ~Active(rentals[j])

\* handler h's create_rental ends at this step with the exception of its step pc
FailsAt(h, pc) == handler[h].pc = pc /\ handler'[h] = Done("500")

\* C13: when the gateway's session creation fails in create_rental, after the
\* locker was reserved and the rental inserted, the request returns with the
\* locker AVAILABLE again, naming no rental, and with no PENDING rental without
\* a session holding that locker.
C13_GatewayFailureRollsBack ==
  [][\A h \in Handlers :
       FailsAt(h, "c_checkout") =>
         /\ \A l \in LockerIndexes :
              lockers'[l].id = handler[h].rental.locker_id
                => (lockers'[l].status = AVAILABLE /\ lockers'[l].current_rental_id = None)
         /\ \A i \in DOMAIN rentals' :
              ~(/\ rentals'[i].locker_id = handler[h].rental.locker_id
                /\ rentals'[i].payment_status = PENDING
                /\ rentals'[i].payment_session_id = None)]_vars

\* C14: after any create_rental has finished, and so when the insert of the
\* rental fails after the locker was marked OCCUPIED, every OCCUPIED locker's
\* current_rental_id names a rental of the ledger.
C14_OccupiedLockerHasRental ==
  (\A h \in Handlers : handler[h].pc \notin {"c_reserve", "c_insert"})
    => \A l \in LockerIndexes :
         lockers[l].status = OCCUPIED
           => \E i \in RentalIndexes : rentals[i].id = lockers[l].current_rental_id

\* rental number i of the ledger is paid and its end_time has passed
PaidOverdue(i) ==
  i \in RentalIndexes /\ Paid(rentals[i]) /\ rentals[i].end_time < now
\* and its locker still names it
HoldsOverdue(i) ==
  PaidOverdue(i) /\ LockerOf(rentals[i]).current_rental_id = rentals[i].id
Expired(i) == i \in RentalIndexes /\ rentals[i].is_expired
Released(i) ==
  /\ i \in RentalIndexes
  /\ LockerOf(rentals[i]).status = AVAILABLE
  /\ LockerOf(rentals[i]).current_rental_id = None

\* C15: under fair scheduling of the Sweeper, every paid rental whose end_time
\* has passed is eventually is_expired, and the locker it holds is eventually
\* AVAILABLE with current_rental_id None, also after a write of an earlier tick
\* failed.
C15_OverdueEventuallyReleased ==
  \A i \in 1..MaxRentals :
    /\ PaidOverdue(i) ~> Expired(i)
    /\ HoldsOverdue(i) ~> Released(i)

\* C16: a tick that raises does not end the Sweeper: the failing step takes
\* the task to its sleep, and the task is at its sleep, with the next tick
\* able to run, again and again for ever.
C16_SweeperNeverDies ==
  /\ [][SweepFails => sweeper'.pc = "sleep"]_vars
  /\ []<>(sweeper.pc = "sleep" /\ ENABLED SweepFind)

\* a tick failed between its two writes (the rental is marked, its locker still
\* names it, no request is under way) and a later tick has run (its list is
\* empty, the failed one's was not)
C16_Witness ==
  /\ sweeper.pc = "sleep" /\ sweeper.expired_rentals = <<>>
  /\ \A h \in Handlers : handler[h].pc = "idle"
  /\ \E i \in RentalIndexes :
       /\ rentals[i].is_expired
       /\ LockerOf(rentals[i]).status = OCCUPIED
       /\ LockerOf(rentals[i]).current_rental_id = rentals[i].id

\* the Sweeper's tick ends at this step
TickEnds == sweeper.pc \in {"mark", "release"} /\ sweeper'.pc = "sleep"
\* candidate k of the tick has been expired and released
Swept(k) ==
  \A i \in DOMAIN rentals' :
    rentals'[i].id = sweeper.expired_rentals[k].id =>
      /\ rentals'[i].is_expired
      /\ \A l \in DOMAIN lockers' :
           lockers'[l].id = rentals'[i].locker_id
             => lockers'[l].current_rental_id # rentals'[i].id

\* C17: within one tick a failure on one candidate does not abort the others:
\* when the tick ends, every candidate it found, other than one whose write
\* failed, is is_expired and its locker no longer names it.
C17_FailureSparesOtherCandidates ==
  [][TickEnds =>
       \A k \in 1..Len(sweeper.expired_rentals) :
         (SweepFails /\ k = sweeper.i) \/ Swept(k)]_vars

\* C18: a webhook whose parsing fails answers {"status": "error"}, its request
\* is over and no rental and no transaction has changed; the parsing itself
\* writes nothing, and a webhook goes on to its writes of the payment state
\* only for an event of type checkout.session.completed.
C18_WebhookFailureChangesNothing ==
  [][\A h \in Handlers :
       /\ \A e \in EventTypes, session_id \in SessionIds :
            (handler[h].pc = "idle" /\ WebhookParse(h, e, session_id)) =>
              /\ UNCHANGED Records
              /\ handler'[h].pc \in {"w_tx", "done"}
              /\ handler'[h].pc = "w_tx" => e = "checkout.session.completed"
              /\ handler'[h].pc = "done" => handler'[h].response \in {"success", "error"}
       /\ (handler[h].pc = "idle" /\ handler'[h].response = "error") =>
            (handler'[h] = Done("error") /\ UNCHANGED Records)]_vars

\* a webhook has failed to parse and has answered "error" while a rental with
\* a session and its transaction are waiting for the payment
C18_Witness ==
  \E h \in Handlers, i \in RentalIndexes, t \in DOMAIN payment_transactions :
    /\ handler[h] = Done("error")
    /\ rentals[i].payment_status = PENDING
    /\ rentals[i].payment_session_id # None
    /\ payment_transactions[t].session_id = rentals[i].payment_session_id
    /\ payment_transactions[t].payment_status = PENDING

\* no rental of the ledger has this session id
UnknownSession(session_id) ==
  \A i \in RentalIndexes : rentals[i].payment_session_id # session_id

\* C19: a poll whose session id matches no rental ends with a client error
\* (HTTP 400, for the rental not found) and changes no rental, transaction or
\* locker, at its look-up or before it.
C19_UnknownSessionChangesNothing ==
  [][\A h \in Handlers :
       /\ (handler[h].pc = "idle" /\ handler'[h].pc = "p_find") => UNCHANGED Records
       /\ (handler[h].pc = "p_find" /\ Steps(h) /\ UnknownSession(handler[h].session)) =>
            /\ handler'[h].pc = "done" /\ handler'[h].response = "400"
            /\ UNCHANGED Records]_vars

\* a poll has been answered 400 for a session id that no rental has, while a
\* rental and a transaction are in the ledgers
C19_Witness ==
  \E h \in Handlers :
    /\ handler[h].pc = "done" /\ handler[h].response = "400"
    /\ handler[h].session # None
    /\ UnknownSession(handler[h].session)
    /\ rentals # <<>> /\ payment_transactions # <<>>

\* the rentals of the ledger that took a locker of this size
Taken(size) == {i \in RentalIndexes : rentals[i].locker_size = size}

\* the pool is as provisioned but for the create_rental calls made so far, one
\* at a time: none is under way, each took a locker of its own, every OCCUPIED
\* locker is that of a rental of the ledger, and nothing has been expired
OnlyCreated ==
  /\ \A h \in Handlers : handler[h].pc \notin {"c_reserve"} /\ ~HoldsLocker(h)
  /\ \A i \in RentalIndexes : rentals[i].is_expired = FALSE
  /\ \A i \in RentalIndexes, j \in RentalIndexes :
       rentals[i].locker_id = rentals[j].locker_id => i = j
  /\ \A l \in LockerIndexes :
       lockers[l].status = OCCUPIED
         <=> \E i \in RentalIndexes : rentals[i].locker_id = lockers[l].id

\* C20: from the freshly provisioned pool, with k lockers of a size, each of
\* the first k create_rental calls for the size, made one after the other, is
\* given a locker of that size that no earlier rental has, and the call after
\* them is answered 400 and changes no locker and no ledger.
C20_PoolRentsOutThenRefuses ==
  [][\A h \in Handlers, size \in Sizes :
       (Begins(h) /\ CreateFind(h, size) /\ OnlyCreated) =>
         IF Cardinality(Taken(size)) < limit.pool
         THEN /\ handler'[h].pc = "c_reserve"
              /\ handler'[h].locker.size = size
              /\ handler'[h].rental.locker_id = handler'[h].locker.id
              /\ \A i \in RentalIndexes : rentals[i].locker_id # handler'[h].locker.id
         ELSE /\ handler'[h] = Done("400")
              /\ UNCHANGED Records]_vars

\* a class of FullPool lockers has been rented out, each rental on a locker of
\* its own, and the call after them has been answered 400
C20_Witness ==
  /\ limit.pool = FullPool
  /\ OnlyCreated
  /\ Cardinality(Taken("small")) = FullPool
  /\ \A l \in LockerIndexes : lockers[l].size = "small" => lockers[l].status = OCCUPIED
  /\ \E h \in Handlers : handler[h] = Done("400")

\* C21: the reservation of a create_rental for a size lowers the available
\* count of that size by exactly one and leaves the count of every other size
\* as it was; the locker reserved has the size asked for, and the rental the
\* request inserts is PENDING and not expired.
C21_CreateLowersCountByOne ==
  [][\A h \in Handlers :
       /\ CreateReserve(h) =>
            /\ handler[h].locker.size = handler[h].rental.locker_size
            /\ \A size \in Sizes :
                 get_locker_availability'[size] =
                   IF size = handler[h].rental.locker_size
                   THEN get_locker_availability[size] - 1
                   ELSE get_locker_availability[size]
       /\ (handler[h].pc = "c_insert" /\ handler'[h].pc = "c_checkout") =>
            /\ rentals'[Len(rentals')].id = handler[h].rental.id
            /\ rentals'[Len(rentals')].payment_status = PENDING
            /\ rentals'[Len(rentals')].is_expired = FALSE]_vars

\* handler h takes a step of get_payment_status or of stripe_webhook
ConfirmStep(h) ==
  /\ Steps(h)
  /\ \/ handler[h].pc \in {"p_find", "p_tx", "p_rental", "w_tx", "w_rental"}
     \/ Begins(h) /\ handler'[h].pc \in {"p_find", "w_tx"}

\* C22: no step of a payment confirmation, by poll or by webhook, changes a
\* locker; the poll's write for a paid session leaves the rental it found
\* SUCCESS and the webhook's write leaves the first rental of the session
\* SUCCESS, whether or not the rental's end_time has passed.
C22_ConfirmLeavesLockers ==
  [][\A h \in Handlers :
       /\ ConfirmStep(h) => lockers' = lockers
       /\ PollUpdateRental(h) =>
            \A i \in RentalIndexes :
              rentals[i].id = handler[h].rental.id => Paid(rentals'[i])
       /\ WebhookUpdateRental(h) =>
            \A i \in RentalIndexes :
              i = FindOne(rentals, [payment_session_id |-> handler[h].session])
                => Paid(rentals'[i])]_vars

\* a confirmation has written the transaction of a rental after the rental's
\* end_time, the rental is SUCCESS and still not expired, and the locker is as
\* the rental's creation left it
C22_Witness ==
  \E i \in RentalIndexes, t \in DOMAIN payment_transactions :
    /\ payment_transactions[t].rental_id = rentals[i].id
    /\ payment_transactions[t].updated_at > rentals[i].end_time
    /\ Paid(rentals[i]) /\ rentals[i].is_expired = FALSE
    /\ LockerOf(rentals[i]).status = OCCUPIED
    /\ LockerOf(rentals[i]).current_rental_id = rentals[i].id

\* C23: in every reachable state no two rentals that are not expired have the
\* same access_pin.
C23_ActivePinsDistinct ==
  \A i \in RentalIndexes, j \in RentalIndexes :
    (i # j /\ rentals[i].is_expired = FALSE /\ rentals[j].is_expired = FALSE)
      => rentals[i].access_pin # rentals[j].access_pin

\* no payment confirmation is under way
NoneConfirming ==
  \A h \in Handlers : handler[h].pc \notin {"p_find", "p_tx", "p_rental", "w_tx", "w_rental"}
\* every transaction has the payment_status of its rental
Lockstep ==
  \A t \in DOMAIN payment_transactions, i \in RentalIndexes :
    payment_transactions[t].rental_id = rentals[i].id
      => payment_transactions[t].payment_status = rentals[i].payment_status

\* C24: the payment_status of a transaction moves in lockstep with that of its
\* rental: a poll that sees "not paid" leaves every SUCCESS transaction SUCCESS,
\* and whenever no confirmation is under way each transaction has the
\* payment_status of its rental.
C24_TransactionLockstep ==
  [][/\ \A h \in Handlers :
          (PollUpdateTx(h) /\ ~handler[h].paid) =>
            \A t \in DOMAIN payment_transactions :
              payment_transactions[t].payment_status = SUCCESS
                => payment_transactions'[t].payment_status = SUCCESS
     /\ NoneConfirming' => Lockstep']_vars

\* C25: a rental that is is_expired is SUCCESS, in every state: neither the
\* Sweeper nor the lazy expiry of unlock expires a PENDING rental; and the
\* payment_status of a rental changes from PENDING to SUCCESS only.
C25_ExpiredIsPaid ==
  [][/\ \A i \in DOMAIN rentals' : rentals'[i].is_expired => Paid(rentals'[i])
     /\ \A i \in RentalIndexes \cap DOMAIN rentals' :
          rentals'[i].payment_status # rentals[i].payment_status
            => (rentals[i].payment_status = PENDING /\ rentals'[i].payment_status = SUCCESS)]_vars

\* an unlock has expired a paid rental by the lazy path while an unpaid one,
\* as much overdue, is still not expired
C25_Witness ==
  /\ \E h \in Handlers : handler[h] = Done("expired")
  /\ \E i \in RentalIndexes, j \in RentalIndexes :
       /\ rentals[i].is_expired /\ Paid(rentals[i])
       /\ rentals[j].payment_status = PENDING /\ rentals[j].is_expired = FALSE
       /\ rentals[j].end_time < now

\* locker l is reserved for rental i of the ledger, which is not paid
ReservedUnpaid(l, i) ==
  /\ rentals[i].payment_status = PENDING
  /\ lockers[l].id = rentals[i].locker_id
  /\ lockers[l].status = OCCUPIED
  /\ lockers[l].current_rental_id = rentals[i].id

\* C26: a locker reserved for a rental whose payment is not confirmed stays
\* OCCUPIED: no step of the Sweeper, of an unlock, of a confirmation or of a
\* create_rental makes it AVAILABLE while the rental is PENDING.
C26_UnpaidKeepsLocker ==
  [][\A l \in LockerIndexes, i \in RentalIndexes :
       (ReservedUnpaid(l, i) /\ rentals'[i].payment_status = PENDING)
         => lockers'[l].status = OCCUPIED]_vars

\* the rentals the gateway has created this session for: those that carry it
\* in the ledger, and those of a create_rental that has it from the gateway
\* and has not finished
CreatedFor(session_id) ==
  {rentals[i].id : i \in {j \in RentalIndexes : rentals[j].payment_session_id = session_id}}
    \cup {handler[g].rental.id :
            g \in {f \in Handlers : /\ handler[f].pc \in {"c_session", "c_tx"}
                                    /\ handler[f].session = session_id}}

\* C27: a payment confirmation is not lost: when a webhook for a completed
\* event of a session the gateway created for a rental takes its last step and
\* answers success, a rental of that session is SUCCESS in the ledger and so is
\* a transaction of that session, also when the create_rental of the rental
\* has not yet stored the session id or inserted the transaction.
C27_ConfirmationNotLost ==
  [][\A h \in Handlers :
       (WebhookUpdateRental(h) /\ CreatedFor(handler[h].session) # {}) =>
         /\ \E i \in DOMAIN rentals' :
              rentals'[i].id \in CreatedFor(handler[h].session) /\ Paid(rentals'[i])
         /\ \E t \in DOMAIN payment_transactions' :
              /\ payment_transactions'[t].session_id = handler[h].session
              /\ payment_transactions'[t].payment_status = SUCCESS]_vars
====
